---- MODULE Spec2Model ----
(***************************************************************************)
(* Constraint collection of the Andersen points-to pass                    *)
(* (lib/ConstraintCollect.cpp).  The pass walks one LLVM module and        *)
(* appends points-to constraints over the node table of AndersNodeFactory. *)
(*                                                                         *)
(* The module under analysis is the input: Init draws it from a bounded    *)
(* family of modules, and the actions are the steps of collectConstraints  *)
(* in program order.  A failed assertion aborts the pass (aborted.why).       *)
(***************************************************************************)
EXTENDS Integers, Sequences, FiniteSets, TLC

\* ------------------------------------------------------------------ types
\* An LLVM type: k is "int", "ptr", "array" or "struct"; size is the store
\* size of a scalar; sub holds the element type of an array or the field
\* types of a struct.
IntTy(s) == [k |-> "int", size |-> s, n |-> 0, sub |-> <<>>]
PtrTy == [k |-> "ptr", size |-> 8, n |-> 0, sub |-> <<>>]
ArrayTy(n, e) == [k |-> "array", size |-> 0, n |-> n, sub |-> <<e>>]
StructTy(fs) == [k |-> "struct", size |-> 0, n |-> Len(fs), sub |-> fs]

I32 == IntTy(4)
I64 == IntTy(8)
\* struct S2 { i32; i8* }
S2 == StructTy(<<I32, PtrTy>>)
\* struct SP { i8*; i8* }
SP == StructTy(<<PtrTy, PtrTy>>)
\* struct SN { i32; S2; i8* }: field 1 expands to two flattened fields
SN == StructTy(<<I32, S2, PtrTy>>)
\* struct SA { [2 x S2]; i8* }: an array of structs inside a struct
SA == StructTy(<<ArrayTy(2, S2), PtrTy>>)
\* struct SD { SN; [2 x i32]; SP }
SD == StructTy(<<SN, ArrayTy(2, I32), SP>>)
\* struct {}
EmptyTy == StructTy(<<>>)
\* { i32, i8, {} }: the empty struct sits at byte 5 of 8
SE == StructTy(<<I32, IntTy(1), EmptyTy>>)

isPointerTy(t) == t.k = "ptr"
isStructTy(t) == t.k = "struct"
isArrayTy(t) == t.k = "array"

RECURSIVE CollapseArray(_)
\* while (ArrayType* a = dyn_cast<ArrayType>(type)) type = a->getElementType();
CollapseArray(t) == IF isArrayTy(t) THEN CollapseArray(t.sub[1]) ELSE t

\* --------------------------------------------------- DataLayout (LLVM)
AlignTo(x, a) == ((x + a - 1) \div a) * a

MaxOf(S) == CHOOSE x \in S : \A y \in S : y <= x

RECURSIVE ABIAlign(_)
ABIAlign(t) ==
    CASE t.k = "array" -> ABIAlign(t.sub[1])
      [] t.k = "struct" -> MaxOf({1} \cup {ABIAlign(t.sub[i]) : i \in 1..t.n})
      [] OTHER -> t.size

RECURSIVE getTypeAllocSize(_), StructEnd(_, _), getElementOffset(_, _)
\* DataLayout::getTypeAllocSize
getTypeAllocSize(t) ==
    CASE t.k = "array" -> t.n * getTypeAllocSize(t.sub[1])
      [] t.k = "struct" -> AlignTo(StructEnd(t, t.n), ABIAlign(t))
      [] OTHER -> t.size

\* The byte just past field idx (1-based; 0 is before the first)
StructEnd(t, idx) ==
    IF idx = 0 THEN 0
    ELSE getElementOffset(t, idx) + getTypeAllocSize(t.sub[idx])

\* StructLayout::getElementOffset, fields numbered from 1 here
getElementOffset(t, idx) == AlignTo(StructEnd(t, idx - 1), ABIAlign(t.sub[idx]))

\* StructLayout::getElementContainingOffset: the last field that starts at
\* or before the offset
getElementContainingOffset(t, off) ==
    MaxOf({i \in 1..t.n : getElementOffset(t, i) <= off})

\* --------------------------------------------- StructInfo (StructAnalyzer)
RECURSIVE FlatCount(_)
\* the number of flattened fields a type occupies (arrays collapse)
FlatCount(t) ==
    CASE t.k = "array" -> FlatCount(t.sub[1])
      [] t.k = "struct" ->
            LET RECURSIVE Sum(_)
                Sum(i) == IF i = 0 THEN 0 ELSE Sum(i - 1) + FlatCount(t.sub[i])
            IN Sum(t.n)
      [] OTHER -> 1

\* StructInfo::getExpandedSize
getExpandedSize(st) == FlatCount(st)
\* StructInfo::isEmpty
isEmpty(st) == FlatCount(st) = 0
\* StructInfo::getOffset(idx): the flattened index of field idx (1-based
\* here), 0 for the first field
getOffset(st, idx) == FlatCount(StructTy(SubSeq(st.sub, 1, idx - 1)))

\* ------------------------------------------------- GEP offset resolver
\* What the resolver yields when `offset %= getTypeAllocSize(trueElemType)`
\* divides by zero (an empty struct has allocation size 0). The division
\* is undefined behaviour; what the run does then is one of UBOutcomes.
DivisionByZero == -1

\* The outcomes of the unsigned remainder by zero: the hardware traps and
\* the process is killed, or the instruction yields some remainder and the
\* loop goes on with the empty struct, where
\* StructLayout::getElementContainingOffset finds no element and its
\* assertion "Offset not in structure type!" fails.
UBOutcomes == {"SIGFPE", "assert"}

RECURSIVE GEPFieldLoop(_, _, _)
\* GEPFieldLoop adding the position of the field in its struct instead of
\* its flattened index
GEPFieldLoopFieldIndex(offset, trueElemType, ret) ==
    IF offset = 0 THEN ret
    ELSE LET ty == CollapseArray(trueElemType)
             off == offset % getTypeAllocSize(ty)
         IN IF getTypeAllocSize(ty) = 0 THEN DivisionByZero
            ELSE IF isStructTy(ty)
            THEN LET idx == getElementContainingOffset(ty, off)
                 IN GEPFieldLoop(off - getElementOffset(ty, idx),
                                 ty.sub[idx], ret + (idx - 1))
            ELSE IF off # 0 THEN ret ELSE GEPFieldLoop(off, ty, ret)

\* the loop of getGEPInstFieldNum: while (offset > 0) { ... }
GEPFieldLoop(offset, trueElemType, ret) ==
    IF offset = 0 THEN ret
    ELSE LET ty == CollapseArray(trueElemType)
             off == offset % getTypeAllocSize(ty)
         IN IF getTypeAllocSize(ty) = 0
            THEN DivisionByZero    \* offset %= 0: undefined behaviour
            ELSE IF isStructTy(ty)
            THEN LET idx == getElementContainingOffset(ty, off)
                 IN GEPFieldLoop(off - getElementOffset(ty, idx),
                                 ty.sub[idx], ret + getOffset(ty, idx))
            ELSE IF off # 0
                 THEN ret    \* GEP into the middle of a field: warn, break
                 ELSE GEPFieldLoop(off, ty, ret)

\* getGEPInstFieldNum(gepInst): offset is getGEPOffset(gepInst), elemType
\* the element type of the underlying object of the pointer operand
getGEPInstFieldNum(offset, elemType) == GEPFieldLoop(offset, elemType, 0)

\* ------------------------------------------------------- program values
\* An llvm::Value used as an operand or as the key of a node: a global
\* variable, a function, formal b of function a, instruction b of function
\* a, a constant integer, or the constant null pointer.
GV(i) == [k |-> "global", a |-> i, b |-> 0]
FV(i) == [k |-> "func", a |-> i, b |-> 0]
AV(f, i) == [k |-> "arg", a |-> f, b |-> i]
IV(f, i) == [k |-> "inst", a |-> f, b |-> i]
CINT == [k |-> "cint", a |-> 0, b |-> 0]
CNULL == [k |-> "cnull", a |-> 0, b |-> 0]
\* the key of an object node created without a value (createObjectNode())
NoValue == [k |-> "none", a |-> 0, b |-> 0]

\* ------------------------------------------------- constant initializers
CInt(v) == [k |-> "int", a |-> v, ops |-> <<>>, ty |-> I32]
CNull == [k |-> "null", a |-> 0, ops |-> <<>>, ty |-> PtrTy]
CGRef(g) == [k |-> "gref", a |-> g, ops |-> <<>>, ty |-> PtrTy]
CFRef(f) == [k |-> "fref", a |-> f, ops |-> <<>>, ty |-> PtrTy]
\* ConstantAggregateZero
CZero(t) == [k |-> "zero", a |-> 0, ops |-> <<>>, ty |-> t]
\* UndefValue
CUndef(t) == [k |-> "undef", a |-> 0, ops |-> <<>>, ty |-> t]
\* ConstantStruct
CStruct(t, ops) == [k |-> "struct", a |-> 0, ops |-> ops, ty |-> t]
\* ConstantArray
CArray(t, ops) == [k |-> "array", a |-> 0, ops |-> ops, ty |-> t]

\* Type::isSingleValueType (no vector types in the modules drawn)
isSingleValueType(t) == t.k \in {"int", "ptr"}
\* Constant::isNullValue: integer 0, the null pointer, ConstantAggregateZero
isNullValue(c) == c.k \in {"zero", "null"} \/ (c.k = "int" /\ c.a = 0)

RECURSIVE ConstsOf(_), ConstTuples(_)
\* The constants of a type LLVM can build: an aggregate literal whose
\* operands are all zero is uniqued to ConstantAggregateZero, so no
\* ConstantStruct or ConstantArray is all-zero.
ConstsOf(t) ==
    CASE t.k = "int" -> {CInt(0), CInt(1)}
      [] t.k = "ptr" -> {CNull, CGRef(2), CFRef(1)}
      [] t.k = "array" ->
            {CZero(t), CUndef(t)} \cup
            {CArray(t, ops) : ops \in
                {o \in ConstTuples([i \in 1..t.n |-> t.sub[1]]) :
                    \E i \in 1..t.n : ~isNullValue(o[i])}}
      [] OTHER ->
            {CZero(t), CUndef(t)} \cup
            {CStruct(t, ops) : ops \in
                {o \in ConstTuples(t.sub) :
                    \E i \in 1..t.n : ~isNullValue(o[i])}}

\* one constant per type of the sequence ts
ConstTuples(ts) ==
    IF ts = <<>> THEN {<<>>}
    ELSE {<<c>> \o r : c \in ConstsOf(Head(ts)), r \in ConstTuples(Tail(ts))}

\* ------------------------------------------------------------ the module
\* A global variable: its value type, and its initializer when it has a
\* definitive one (hasInit).
Global(t, c) == [ty |-> t, hasInit |-> TRUE, init |-> c]
ExternalGlobal(t) == [ty |-> t, hasInit |-> FALSE, init |-> CUndef(t)]

\* An instruction: op is the opcode, ptr whether its own type is a pointer
\* type, ops its operands (the actual arguments, for a call), callee the
\* called function of a direct call (0: none, or an indirect call), ty the
\* element type of the underlying object of a GEP (the allocated type of
\* an alloca) and off the byte offset getGEPOffset gives for a GEP.
Inst(op, ptr, ops) ==
    [op |-> op, ptr |-> ptr, ops |-> ops, callee |-> 0, ty |-> I32, off |-> 0]
Call(ptr, callee, actuals) ==
    [op |-> "call", ptr |-> ptr, ops |-> actuals, callee |-> callee,
     ty |-> I32, off |-> 0]
Alloca(t) ==
    [op |-> "alloca", ptr |-> TRUE, ops |-> <<>>, callee |-> 0, ty |-> t,
     off |-> 0]
GEP(src, t, off) ==
    [op |-> "gep", ptr |-> TRUE, ops |-> <<src>>, callee |-> 0, ty |-> t,
     off |-> off]

\* A function: decl (isDeclaration), lib (what the library tables know of
\* a declaration: "malloc" for an allocation routine, "noop" for a routine
\* addConstraintForExternalLibrary handles without a constraint, "none"),
\* retPtr (the return type is a pointer), varArg, formals (TRUE for each
\* pointer-typed formal) and body.
Function(decl, lib, retPtr, varArg, formals, body) ==
    [decl |-> decl, lib |-> lib, retPtr |-> retPtr, varArg |-> varArg,
     formals |-> formals, body |-> body]

RECURSIVE ConstUsesFunction(_, _)
ConstUsesFunction(c, f) ==
    \/ c.k = "fref" /\ c.a = f
    \/ \E i \in 1..Len(c.ops) : ConstUsesFunction(c.ops[i], f)

\* Function::hasAddressTaken: some use of f is not the callee of a call
hasAddressTaken(M, f) ==
    \/ \E g \in 1..Len(M.globals) :
         M.globals[g].hasInit /\ ConstUsesFunction(M.globals[g].init, f)
    \/ \E h \in 1..Len(M.funcs) : \E i \in 1..Len(M.funcs[h].body) :
         \E j \in 1..Len(M.funcs[h].body[i].ops) :
            M.funcs[h].body[i].ops[j] = FV(f)

\* whether the type of a value is a pointer type
valueIsPointer(M, v) ==
    CASE v.k = "arg" -> M.funcs[v.a].formals[v.b]
      [] v.k = "inst" -> M.funcs[v.a].body[v.b].ptr
      [] v.k = "cint" -> FALSE
      [] OTHER -> TRUE

\* --------------------------------------------------- AndersNodeFactory
\* AndersNodeFactory::InvalidIndex is the largest unsigned value; here the
\* largest integer TLC holds, which no node index of a run reaches
InvalidIndex == 2147483647
UniversalPtrNode == 0
UniversalObjNode == 1
NullPtrNode == 2
NullObjectNode == 3

ValueNode(v) == [type |-> "VALUE_NODE", value |-> v]
ObjNode(v) == [type |-> "OBJ_NODE", value |-> v]

\* the node table after construction: the four special nodes
InitialNodes ==
    <<ValueNode(NoValue), ObjNode(NoValue), ValueNode(NoValue), ObjNode(NoValue)>>

Lookup(map, key) == IF key \in DOMAIN map THEN map[key] ELSE InvalidIndex

\* The state the pass threads through its helpers: S.nodes is the node
\* table (node i is S.nodes[i + 1]), S.cur the step that is running.
createValueNode(S, v) ==
    IF v \in DOMAIN S.valueNodeMap THEN S
    ELSE [S EXCEPT !.nodes = Append(@, ValueNode(v)),
                   !.valueNodeMap = (v :> Len(S.nodes)) @@ @]

createObjectNode(S, v) ==
    IF v = NoValue THEN [S EXCEPT !.nodes = Append(@, ObjNode(v))]
    ELSE IF v \in DOMAIN S.objNodeMap THEN S
    ELSE [S EXCEPT !.nodes = Append(@, ObjNode(v)),
                   !.objNodeMap = (v :> Len(S.nodes)) @@ @]

createReturnNode(S, f) ==
    IF f \in DOMAIN S.returnMap THEN S
    ELSE [S EXCEPT !.nodes = Append(@, ValueNode(FV(f))),
                   !.returnMap = (f :> Len(S.nodes)) @@ @]

createVarargNode(S, f) ==
    IF f \in DOMAIN S.varargMap THEN S
    ELSE [S EXCEPT !.nodes = Append(@, ValueNode(FV(f))),
                   !.varargMap = (f :> Len(S.nodes)) @@ @]

getValueNodeFor(S, v) ==
    CASE v.k = "cnull" -> NullPtrNode
      [] v.k = "cint" -> InvalidIndex
      [] OTHER -> Lookup(S.valueNodeMap, v)

getObjectNodeFor(S, v) == Lookup(S.objNodeMap, v)
getReturnNodeFor(S, f) == Lookup(S.returnMap, f)
getVarargNodeFor(S, f) == Lookup(S.varargMap, f)

getObjectNodeForConstant(S, c) ==
    CASE c.k = "null" -> NullObjectNode
      [] c.k = "gref" -> getObjectNodeFor(S, GV(c.a))
      [] c.k = "fref" -> getObjectNodeFor(S, FV(c.a))
      [] OTHER -> InvalidIndex

getOffsetObjectNode(S, n, offset) == n + offset

\* ------------------------------------------------------- constraints
Constraint(type, dest, src, offset) ==
    [type |-> type, dest |-> dest, src |-> src, offset |-> offset]

\* a failed assertion (or llvm_unreachable) ends the pass
Fail(S, why) == IF S.aborted # "none" THEN S ELSE [S EXCEPT !.aborted = why]
Require(S, cond, why) == IF cond THEN S ELSE Fail(S, why)

\* constraints.emplace_back(type, dest, src, offset); origin records the
\* step that appended the constraint
Emit(S, type, dest, src, offset) ==
    IF S.aborted # "none" THEN S
    ELSE [S EXCEPT !.constraints = Append(@, Constraint(type, dest, src, offset)),
                   !.origin = Append(@, S.cur)]

\* ------------------------------------------------------------ globals
RECURSIVE CreateFieldNodes(_, _)
\* for (i = 1; i < stSize; ++i) nodeFactory.createObjectNode();
CreateFieldNodes(S, n) ==
    IF n <= 0 THEN S ELSE CreateFieldNodes(createObjectNode(S, NoValue), n - 1)

\* processStruct creating a single object node whatever the struct's size
processStructOneObject(S, v, stType) ==
    IF isEmpty(stType)
    THEN LET S1 == createValueNode(S, v)
         IN Emit(S1, "ADDR_OF", getValueNodeFor(S1, v), NullObjectNode, 0)
    ELSE LET S1 == createValueNode(S, v)
             S2a == createObjectNode(S1, v)
         IN Emit(S2a, "ADDR_OF", getValueNodeFor(S2a, v), getObjectNodeFor(S2a, v), 0)

processStruct(S, v, stType) ==
    IF isEmpty(stType)
    THEN LET S1 == createValueNode(S, v)
         IN Emit(S1, "ADDR_OF", getValueNodeFor(S1, v), NullObjectNode, 0)
    ELSE LET stSize == getExpandedSize(stType)
             S1 == createValueNode(S, v)
             S2a == createObjectNode(S1, v)
             S3 == CreateFieldNodes(S2a, stSize - 1)
         IN Emit(S3, "ADDR_OF", getValueNodeFor(S3, v), getObjectNodeFor(S3, v), 0)

\* first loop of collectConstraintsForGlobals, one global variable
GlobalNodes(S, M, g) ==
    LET type == CollapseArray(M.globals[g].ty)
    IN IF isStructTy(type)
       THEN processStruct(S, GV(g), type)
       ELSE LET S1 == createValueNode(S, GV(g))
                S2a == createObjectNode(S1, GV(g))
            IN Emit(S2a, "ADDR_OF", getValueNodeFor(S2a, GV(g)),
                    getObjectNodeFor(S2a, GV(g)), 0)

\* second loop of collectConstraintsForGlobals, one function
FunctionNodes(S, M, f) ==
    IF hasAddressTaken(M, f)
    THEN LET S1 == createValueNode(S, FV(f))
             S2a == createObjectNode(S1, FV(f))
         IN Emit(S2a, "ADDR_OF", getValueNodeFor(S2a, FV(f)),
                 getObjectNodeFor(S2a, FV(f)), 0)
    ELSE S

\* InitializerBranch looking at the shape of an aggregate before it asks
\* whether the constant is null
InitializerBranchByShape(c) ==
    IF isSingleValueType(c.ty)
    THEN IF isPointerTy(c.ty) THEN "pointer" ELSE "scalar"
    ELSE IF c.k = "undef" THEN "undef"
    ELSE IF isArrayTy(c.ty) THEN "array"
    ELSE IF isStructTy(c.ty) THEN "struct"
    ELSE IF isNullValue(c) THEN "null"
    ELSE "unexpected"

\* the branch addGlobalInitializerConstraints takes for constant c
InitializerBranch(c) ==
    IF isSingleValueType(c.ty)
    THEN IF isPointerTy(c.ty) THEN "pointer" ELSE "scalar"
    ELSE IF isNullValue(c) THEN "null"
    ELSE IF c.k # "undef"
         THEN IF c.k = "array" THEN "array"
              ELSE IF c.k = "struct" THEN "struct"
              ELSE "unexpected"
         ELSE "undef"

\* the object node the struct loop hands operand i (counted from 0)
StructFieldNode(S, objNode, stType, i) == getOffsetObjectNode(S, objNode, i)

RECURSIVE addGlobalInitializerConstraints(_, _, _, _), InitOperands(_, _, _, _, _)
\* initLog keeps one entry per call: the operand path from the global's
\* initializer, the object node and constant passed, and the length of
\* the constraint list at entry (from) and at return (to).
addGlobalInitializerConstraints(S, objNode, c, path) ==
    LET k == Len(S.initLog) + 1
        S0 == [S EXCEPT !.initLog = Append(@,
                  [path |-> path, obj |-> objNode, c |-> c,
                   from |-> Len(S.constraints), to |-> 0])]
        br == InitializerBranch(c)
        S1 == CASE br = "pointer" ->
                     LET rhsNode == getObjectNodeForConstant(S0, c)
                     IN Emit(Require(S0, rhsNode # InvalidIndex, "lookup"),
                             "ADDR_OF", objNode, rhsNode, 0)
                [] br = "null" -> Emit(S0, "COPY", objNode, NullObjectNode, 0)
                [] br \in {"array", "struct"} -> InitOperands(S0, objNode, c, 1, path)
                [] br = "unexpected" -> Fail(S0, "unreachable")
                [] OTHER -> S0
    IN [S1 EXCEPT !.initLog[k].to = Len(S1.constraints)]

\* the operand loops: every element of an array at objNode itself, operand
\* i of a struct at StructFieldNode
InitOperands(S, objNode, c, i, path) ==
    IF i > Len(c.ops) \/ S.aborted # "none" THEN S
    ELSE LET field == IF c.k = "struct"
                      THEN StructFieldNode(S, objNode, c.ty, i - 1)
                      ELSE objNode
         IN InitOperands(
                addGlobalInitializerConstraints(S, field, c.ops[i], Append(path, i)),
                objNode, c, i + 1, path)

\* third loop of collectConstraintsForGlobals, one global variable
GlobalInitializer(S, M, g) ==
    LET gObj == getObjectNodeFor(S, GV(g))
    IN IF gObj = InvalidIndex THEN S
       ELSE IF M.globals[g].hasInit
       THEN addGlobalInitializerConstraints(S, gObj, M.globals[g].init, <<g>>)
       ELSE Emit(S, "COPY", gObj, UniversalObjNode, 0)

\* ---------------------------------------------------------- functions
RECURSIVE CreateFormalNodes(_, _, _, _), CreateInstNodes(_, _, _, _)
\* for each formal: if (isa<PointerType>(itr->getType())) createValueNode(itr)
CreateFormalNodes(S, M, f, i) ==
    IF i > Len(M.funcs[f].formals) THEN S
    ELSE CreateFormalNodes(
            IF M.funcs[f].formals[i] THEN createValueNode(S, AV(f, i)) ELSE S,
            M, f, i + 1)

\* for each instruction: if (inst->getType()->isPointerTy()) createValueNode(inst)
CreateInstNodes(S, M, f, i) ==
    IF i > Len(M.funcs[f].body) THEN S
    ELSE CreateInstNodes(
            IF M.funcs[f].body[i].ptr THEN createValueNode(S, IV(f, i)) ELSE S,
            M, f, i + 1)

\* the loop body of collectConstraints up to the translation of the
\* instructions of function f
FunctionEntry(S, M, f) ==
    LET fn == M.funcs[f]
        S1 == IF fn.retPtr THEN createReturnNode(S, f) ELSE S
        S2a == IF fn.varArg THEN createVarargNode(S1, f) ELSE S1
        S3 == CreateFormalNodes(S2a, M, f, 1)
    IN CreateInstNodes(S3, M, f, 1)

\* -------------------------------------------------------------- calls
RECURSIVE BindFormals(_, _, _, _, _), BindVarargs(_, _, _, _, _)
\* BindFormals without the Universal Pointer fallback for an actual that
\* is no pointer
BindFormalsPointerOnly(S, M, actuals, h, j) ==
    IF j > Len(M.funcs[h].formals) \/ j > Len(actuals) THEN S
    ELSE LET actual == actuals[j]
             fIndex == getValueNodeFor(S, AV(h, j))
             aIndex == getValueNodeFor(S, actual)
             S1 == Require(S, fIndex # InvalidIndex, "lookup")
             S2a == IF ~M.funcs[h].formals[j] THEN S
                    ELSE IF valueIsPointer(M, actual)
                    THEN Emit(Require(S1, aIndex # InvalidIndex, "lookup"),
                              "COPY", fIndex, aIndex, 0)
                    ELSE S1
         IN BindFormals(S2a, M, actuals, h, j + 1)

\* the lockstep loop of addArgumentConstraintForCall from pair j on:
\* actuals are the operands of the call, h is the callee
BindFormals(S, M, actuals, h, j) ==
    IF j > Len(M.funcs[h].formals) \/ j > Len(actuals) THEN S
    ELSE LET actual == actuals[j]
             fIndex == getValueNodeFor(S, AV(h, j))
             aIndex == getValueNodeFor(S, actual)
             S1 == Require(S, fIndex # InvalidIndex, "lookup")
             S2a == IF ~M.funcs[h].formals[j] THEN S
                    ELSE IF valueIsPointer(M, actual)
                    THEN Emit(Require(S1, aIndex # InvalidIndex, "lookup"),
                              "COPY", fIndex, aIndex, 0)
                    ELSE Emit(S1, "COPY", fIndex, UniversalPtrNode, 0)
         IN BindFormals(S2a, M, actuals, h, j + 1)

\* the varargs loop of addArgumentConstraintForCall from actual j on
BindVarargs(S, M, actuals, h, j) ==
    IF j > Len(actuals) THEN S
    ELSE LET actual == actuals[j]
             aIndex == getValueNodeFor(S, actual)
             vaIndex == getVarargNodeFor(S, h)
             S1 == IF valueIsPointer(M, actual)
                   THEN Emit(Require(Require(S, aIndex # InvalidIndex, "lookup"),
                                     vaIndex # InvalidIndex, "lookup"),
                             "COPY", vaIndex, aIndex, 0)
                   ELSE S
         IN BindVarargs(S1, M, actuals, h, j + 1)

Min(a, b) == IF a < b THEN a ELSE b

\* bindLog keeps one entry per call of addArgumentConstraintForCall: the
\* call site, the callee, the length of the constraint list at entry and
\* when it stopped, and whether it returned.
addArgumentConstraintForCall(S, M, site, h) ==
    LET actuals == M.funcs[site[1]].body[site[2]].ops
        k == Len(S.bindLog) + 1
        S0 == [S EXCEPT !.bindLog = Append(@,
                  [site |-> site, callee |-> h, from |-> Len(S.constraints),
                   to |-> 0, returned |-> FALSE])]
        S1 == BindFormals(S0, M, actuals, h, 1)
        S2a == IF M.funcs[h].varArg
               THEN BindVarargs(S1, M, actuals, h,
                                Min(Len(M.funcs[h].formals), Len(actuals)) + 1)
               ELSE S1
    IN [S2a EXCEPT !.bindLog[k].to = Len(S2a.constraints),
                   !.bindLog[k].returned = (S2a.aborted = "none")]

\* addConstraintForExternalLibrary: TRUE when the library table handles
\* the callee
addConstraintForExternalLibrary(M, h) == M.funcs[h].lib = "noop"

RECURSIVE UnresolvedActuals(_, _, _, _)
\* the loop over the actuals of an unresolved library call
UnresolvedActuals(S, M, actuals, j) ==
    IF j > Len(actuals) THEN S
    ELSE LET argIndex == getValueNodeFor(S, actuals[j])
         IN UnresolvedActuals(
                Emit(Require(S, argIndex # InvalidIndex, "lookup"),
                     "COPY", argIndex, UniversalPtrNode, 0),
                M, actuals, j + 1)

\* IsCandidate without the exemption of variadic functions
IsCandidateExactArity(S, M, nActuals, h) ==
    /\ getValueNodeFor(S, FV(h)) # InvalidIndex
    /\ Len(M.funcs[h].formals) = nActuals

\* the test of the indirect-call loop: f is bound against the call site
IsCandidate(S, M, nActuals, h) ==
    /\ getValueNodeFor(S, FV(h)) # InvalidIndex
    /\ (M.funcs[h].varArg \/ Len(M.funcs[h].formals) = nActuals)

RECURSIVE BindCandidates(_, _, _, _)
\* for (auto const& f: *M) of the indirect call, from function h on
BindCandidates(S, M, site, h) ==
    IF h > Len(M.funcs) \/ S.aborted # "none" THEN S
    ELSE BindCandidates(
            IF IsCandidate(S, M, Len(M.funcs[site[1]].body[site[2]].ops), h)
            THEN addArgumentConstraintForCall(S, M, site, h)
            ELSE S,
            M, site, h + 1)

addConstraintForCall(S, M, site) ==
    LET inst == M.funcs[site[1]].body[site[2]]
        retIndex == getValueNodeFor(S, IV(site[1], site[2]))
        h == inst.callee
    IN IF h # 0
       THEN IF M.funcs[h].decl
            THEN IF addConstraintForExternalLibrary(M, h) THEN S
                 ELSE LET S1 == IF inst.ptr
                                THEN Emit(Require(S, retIndex # InvalidIndex, "lookup"),
                                          "COPY", retIndex, UniversalPtrNode, 0)
                                ELSE S
                          S2a == UnresolvedActuals(S1, M, inst.ops, 1)
                      IN addArgumentConstraintForCall(S2a, M, site, h)
            ELSE LET fRetIndex == getReturnNodeFor(S, h)
                     S1 == IF inst.ptr
                           THEN Emit(Require(Require(S, retIndex # InvalidIndex, "lookup"),
                                             fRetIndex # InvalidIndex, "lookup"),
                                     "COPY", retIndex, fRetIndex, 0)
                           ELSE S
                 IN addArgumentConstraintForCall(S1, M, site, h)
       ELSE LET S1 == IF inst.ptr
                      THEN Emit(Require(S, retIndex # InvalidIndex, "lookup"),
                                "COPY", retIndex, UniversalPtrNode, 0)
                      ELSE S
            IN BindCandidates(S1, M, site, 1)

\* isMallocCall: a direct call of a declaration the library info knows as
\* an allocation routine
isMallocCall(M, inst) ==
    inst.callee # 0 /\ M.funcs[inst.callee].decl
        /\ M.funcs[inst.callee].lib = "malloc"

\* ------------------------------------------------------- instructions
RECURSIVE PhiIncoming(_, _, _, _)
PhiIncoming(S, inst, dstIndex, j) ==
    IF j > Len(inst.ops) THEN S
    ELSE LET srcIndex == getValueNodeFor(S, inst.ops[j])
         IN PhiIncoming(
                Emit(Require(S, srcIndex # InvalidIndex, "lookup"),
                     "COPY", dstIndex, srcIndex, 0),
                inst, dstIndex, j + 1)

UnsupportedOps ==
    {"extractvalue", "insertvalue", "landingpad", "resume", "atomicrmw", "cmpxchg"}

\* whether the Store case emits its constraint: inst->getType()->isPointerTy()
StoreGuard(M, inst) == inst.ptr

\* ub is the outcome the build produces should the instruction run into
\* undefined behaviour
collectConstraintsForInstruction(S, M, f, i, ub) ==
    LET inst == M.funcs[f].body[i]
        self == IV(f, i)
        selfIndex == getValueNodeFor(S, self)
        op(j) == getValueNodeFor(S, inst.ops[j])
        Found(T, idx) == Require(T, idx # InvalidIndex, "lookup")
    IN CASE inst.op = "alloca" ->
              LET S1 == createValueNode(S, self)
                  S2a == createObjectNode(S1, self)
              IN Emit(S2a, "ADDR_OF", getValueNodeFor(S2a, self),
                      getObjectNodeFor(S2a, self), 0)
         [] inst.op = "call" ->
              IF isMallocCall(M, inst)
              THEN LET S1 == createObjectNode(Found(S, selfIndex), self)
                   IN Emit(S1, "ADDR_OF", selfIndex, getObjectNodeFor(S1, self), 0)
              ELSE addConstraintForCall(S, M, <<f, i>>)
         [] inst.op = "ret" ->
              IF Len(inst.ops) > 0 /\ valueIsPointer(M, inst.ops[1])
              THEN LET retIndex == getReturnNodeFor(S, f)
                   IN Emit(Found(Found(S, retIndex), op(1)), "COPY", retIndex, op(1), 0)
              ELSE S
         [] inst.op = "load" ->
              IF inst.ptr
              THEN Emit(Found(Found(S, op(1)), selfIndex), "LOAD", selfIndex, op(1), 0)
              ELSE S
         [] inst.op = "store" ->
              IF StoreGuard(M, inst)
              THEN Emit(Found(Found(S, op(1)), op(2)), "STORE", op(2), op(1), 0)
              ELSE S
         [] inst.op = "gep" ->
              LET S1 == Found(Found(Require(S, inst.ptr, "type"), op(1)), selfIndex)
                  fieldNum == getGEPInstFieldNum(inst.off, inst.ty)
              IN IF fieldNum = DivisionByZero THEN Fail(S1, ub)
                 ELSE Emit(S1, "STORE", selfIndex, op(1), fieldNum)
         [] inst.op = "phi" ->
              IF inst.ptr THEN PhiIncoming(Found(S, selfIndex), inst, selfIndex, 1)
              ELSE S
         [] inst.op = "bitcast" ->
              IF inst.ptr
              THEN Emit(Found(Found(S, op(1)), selfIndex), "COPY", selfIndex, op(1), 0)
              ELSE S
         [] inst.op = "inttoptr" ->
              Emit(Found(Require(S, inst.ptr, "type"), selfIndex),
                   "COPY", selfIndex, UniversalPtrNode, 0)
         [] inst.op = "select" ->
              IF inst.ptr
              THEN LET S1 == Found(Found(Found(S, op(2)), op(3)), selfIndex)
                   IN Emit(Emit(S1, "COPY", selfIndex, op(2), 0),
                           "COPY", selfIndex, op(3), 0)
              ELSE S
         [] inst.op = "va_arg" ->
              IF inst.ptr
              THEN LET vaIndex == getVarargNodeFor(S, f)
                   IN Emit(Found(Found(S, selfIndex), vaIndex),
                           "COPY", selfIndex, vaIndex, 0)
              ELSE S
         [] inst.op \in UnsupportedOps -> Fail(S, "not implemented")
         [] OTHER -> Require(S, ~inst.ptr, "not handled")

\* ------------------------------------------------ the modules analysed
MaxFormals == 2
MaxActuals == 2
MaxOffset == 64

RECURSIVE SeqsUpTo(_, _)
\* the sequences over S of length at most n
SeqsUpTo(S, n) ==
    IF n = 0 THEN {<<>>}
    ELSE LET R == SeqsUpTo(S, n - 1)
         IN R \cup {Append(r, x) : r \in {q \in R : Len(q) = n - 1}, x \in S}

FormalShapes == SeqsUpTo(BOOLEAN, MaxFormals)
ActualShapes == SeqsUpTo({GV(1), CINT}, MaxActuals)

RetVoid == Inst("ret", FALSE, <<>>)
BaseGlobals == <<Global(PtrTy, CGRef(2)), Global(I32, CInt(1))>>

\* globals: one global of each type with each initializer, in front of a
\* global its initializer may refer to; function 1 has a body
GlobalTypes == {I32, PtrTy, S2, SN, SA, EmptyTy, ArrayTy(2, S2), ArrayTy(2, PtrTy)}
TestGlobals ==
    UNION {{Global(t, c) : c \in ConstsOf(t)} \cup {ExternalGlobal(t)} :
           t \in GlobalTypes}
GlobalModules ==
    {[globals |-> <<g, Global(I32, CInt(1))>>,
      funcs |-> <<Function(FALSE, "none", FALSE, FALSE, <<>>,
                           <<Alloca(I32), RetVoid>>)>>] : g \in TestGlobals}

\* direct calls: a caller and a callee, in either order; the call is
\* well typed (one actual of the formal's type per formal, more only for
\* a variadic callee, the call's type the callee's return type)
CalleeShapes ==
    {Function(d[1], d[2], r, v, fs,
              IF d[1] THEN <<>>
              ELSE <<Inst("ret", FALSE, IF r THEN <<GV(1)>> ELSE <<>>)>>) :
        d \in {<<FALSE, "none">>, <<TRUE, "none">>, <<TRUE, "noop">>, <<TRUE, "malloc">>},
        r \in BOOLEAN, v \in BOOLEAN, fs \in FormalShapes}
        \ {fn \in [decl : {TRUE}, lib : {"malloc"}, retPtr : {FALSE},
                   varArg : BOOLEAN, formals : FormalShapes, body : {<<>>}] : TRUE}

TypedActuals(fn) ==
    {[i \in 1..Len(fn.formals) |-> IF fn.formals[i] THEN GV(1) ELSE CINT] \o x :
        x \in IF fn.varArg
              THEN SeqsUpTo({GV(1), CINT},
                            IF MaxActuals > Len(fn.formals)
                            THEN MaxActuals - Len(fn.formals) ELSE 0)
              ELSE {<<>>}}

Caller(call) == Function(FALSE, "none", FALSE, FALSE, <<>>, <<call, RetVoid>>)

DirectCallModules ==
    UNION {
      {[globals |-> BaseGlobals,
        funcs |-> <<Caller(Call(fn.retPtr, 2, as)), fn>>] : as \in TypedActuals(fn)}
      \cup
      {[globals |-> BaseGlobals,
        funcs |-> <<fn, Caller(Call(fn.retPtr, 1, as))>>] : as \in TypedActuals(fn)}
      : fn \in CalleeShapes}

\* indirect calls: a caller between two functions, each address-taken
\* when a global initializer names it
CandidateShapes ==
    {Function(d, "none", FALSE, v, fs, IF d THEN <<>> ELSE <<RetVoid>>) :
        d \in BOOLEAN, v \in BOOLEAN, fs \in FormalShapes}
SecondCandidates ==
    {Function(FALSE, "none", FALSE, TRUE, <<TRUE>>, <<RetVoid>>),
     Function(FALSE, "none", FALSE, FALSE, <<TRUE, FALSE>>, <<RetVoid>>),
     Function(FALSE, "none", FALSE, FALSE, <<FALSE, FALSE>>, <<RetVoid>>)}

IndirectCallModules ==
    {[globals |-> BaseGlobals \o (IF t THEN <<Global(PtrTy, CFRef(1))>> ELSE <<>>)
                              \o <<Global(PtrTy, CFRef(3))>>,
      funcs |-> <<c1, Caller(Call(p, 0, as)), c2>>] :
        c1 \in CandidateShapes, c2 \in SecondCandidates, t \in BOOLEAN,
        p \in BOOLEAN, as \in ActualShapes}

\* instruction kinds: one function (pointer-returning, variadic, formals
\* i8* and i32) whose body is an alloca and one instruction of each kind
GEPTypes == {I32, S2, SN, SA, SD, ArrayTy(2, S2), EmptyTy, SE}
PtrOperands(pos) == {GV(1), AV(1, 1), CNULL} \cup (IF pos = 2 THEN {IV(1, 1)} ELSE {})
IntOperands == {CINT, AV(1, 2)}
PhiOperands(pos) == {GV(1), IV(1, 1), IV(1, 2)}

InstChoices(pos) ==
    {Alloca(t) : t \in {I32, S2, SN}}
    \cup {Inst("load", p, <<a>>) : p \in BOOLEAN, a \in PtrOperands(pos)}
    \cup {Inst("store", FALSE, <<v, a>>) :
            v \in PtrOperands(pos) \cup IntOperands, a \in PtrOperands(pos)}
    \cup {GEP(GV(1), t, o) : t \in (IF pos = 1 THEN GEPTypes ELSE {S2}),
                             o \in 0..MaxOffset}
    \cup {Inst("phi", TRUE, <<a, b>>) : a \in PhiOperands(pos), b \in PhiOperands(pos)}
    \cup {Inst("phi", FALSE, <<CINT, AV(1, 2)>>)}
    \cup {Inst("bitcast", TRUE, <<a>>) : a \in PtrOperands(pos)}
    \cup {Inst("bitcast", FALSE, <<CINT>>)}
    \cup {Inst("inttoptr", TRUE, <<a>>) : a \in IntOperands}
    \cup {Inst("select", TRUE, <<CINT, a, b>>) :
            a \in PtrOperands(pos), b \in PtrOperands(pos)}
    \cup {Inst("select", FALSE, <<CINT, CINT, AV(1, 2)>>)}
    \cup {Inst("va_arg", p, <<AV(1, 1)>>) : p \in BOOLEAN}
    \cup {Inst("ret", FALSE, <<a>>) : a \in PtrOperands(pos)}
    \cup {Inst(o, p, <<>>) : o \in UnsupportedOps, p \in BOOLEAN}
    \cup {Inst("add", FALSE, <<CINT, AV(1, 2)>>), Inst("ptrtoint", FALSE, <<GV(1)>>),
          Inst("addrspacecast", TRUE, <<GV(1)>>)}

InstructionModules ==
    {[globals |-> BaseGlobals,
      funcs |-> <<Function(FALSE, "none", TRUE, TRUE, <<TRUE, FALSE>>, body)>>] :
        body \in {<<x, Alloca(S2)>> : x \in InstChoices(1)}
                 \cup {<<Alloca(S2), x>> : x \in InstChoices(2)}}

Modules ==
    GlobalModules \cup DirectCallModules \cup IndirectCallModules
        \cup InstructionModules

\* --------------------------------------------------------- the pass
VARIABLES
    M,             \* the module analysed
    pc,            \* where collectConstraints is: [ph, f, i]
    nodes,         \* nodeFactory: the node table
    valueNodeMap,  \* nodeFactory: value -> value node
    objNodeMap,    \* nodeFactory: value -> object node
    returnMap,     \* nodeFactory: function -> return node
    varargMap,     \* nodeFactory: function -> vararg node
    constraints,   \* the constraint list
    aborted,       \* "none", or the assertion that ended the pass
    origin,        \* history: the step that appended each constraint
    initLog,       \* history: the calls of addGlobalInitializerConstraints
    bindLog        \* history: the calls of addArgumentConstraintForCall

vars == <<M, pc, nodes, valueNodeMap, objNodeMap, returnMap, varargMap,
          constraints, aborted, origin, initLog, bindLog>>

At(ph, f, i) == [ph |-> ph, f |-> f, i |-> i]

State ==
    [nodes |-> nodes, valueNodeMap |-> valueNodeMap, objNodeMap |-> objNodeMap,
     returnMap |-> returnMap, varargMap |-> varargMap,
     constraints |-> constraints, aborted |-> aborted, origin |-> origin,
     initLog |-> initLog, bindLog |-> bindLog, cur |-> pc]

\* Successor with the initializer loop behind the loop over the functions
SuccessorInitializersLast(p) ==
    LET NextFunction == IF p.f < Len(M.funcs) THEN [ph |-> "function", f |-> p.f + 1, i |-> 0]
                        ELSE [ph |-> "initializers", f |-> 0, i |-> 1]
    IN CASE p.ph = "start" -> [ph |-> "globals", f |-> 0, i |-> 1]
         [] p.ph = "globals" ->
              IF p.i < Len(M.globals) THEN [p EXCEPT !.i = p.i + 1]
              ELSE [ph |-> "functions", f |-> 0, i |-> 1]
         [] p.ph = "functions" ->
              IF p.i < Len(M.funcs) THEN [p EXCEPT !.i = p.i + 1]
              ELSE [ph |-> "function", f |-> 1, i |-> 0]
         [] p.ph = "initializers" ->
              IF p.i < Len(M.globals) THEN [p EXCEPT !.i = p.i + 1]
              ELSE [ph |-> "done", f |-> 0, i |-> 0]
         [] p.ph = "function" ->
              IF M.funcs[p.f].decl THEN NextFunction
              ELSE [ph |-> "body", f |-> p.f, i |-> 1]
         [] p.ph = "body" ->
              IF p.i < Len(M.funcs[p.f].body) THEN [p EXCEPT !.i = p.i + 1]
              ELSE NextFunction
         [] OTHER -> p

\* The position after the step at p returned: the control flow of
\* collectConstraints and collectConstraintsForGlobals.
Successor(p) ==
    LET NextFunction == IF p.f < Len(M.funcs) THEN [ph |-> "function", f |-> p.f + 1, i |-> 0]
                        ELSE [ph |-> "done", f |-> 0, i |-> 0]
    IN CASE p.ph = "start" -> [ph |-> "globals", f |-> 0, i |-> 1]
         [] p.ph = "globals" ->
              IF p.i < Len(M.globals) THEN [p EXCEPT !.i = p.i + 1]
              ELSE [ph |-> "functions", f |-> 0, i |-> 1]
         [] p.ph = "functions" ->
              IF p.i < Len(M.funcs) THEN [p EXCEPT !.i = p.i + 1]
              ELSE [ph |-> "initializers", f |-> 0, i |-> 1]
         [] p.ph = "initializers" ->
              IF p.i < Len(M.globals) THEN [p EXCEPT !.i = p.i + 1]
              ELSE [ph |-> "function", f |-> 1, i |-> 0]
         [] p.ph = "function" ->
              IF M.funcs[p.f].decl THEN NextFunction
              ELSE [ph |-> "body", f |-> p.f, i |-> 1]
         [] p.ph = "body" ->
              IF p.i < Len(M.funcs[p.f].body) THEN [p EXCEPT !.i = p.i + 1]
              ELSE NextFunction
         [] OTHER -> p

\* the state after a helper returned T; the position moves on unless an
\* assertion failed
Becomes(T) ==
    /\ nodes' = T.nodes
    /\ valueNodeMap' = T.valueNodeMap
    /\ objNodeMap' = T.objNodeMap
    /\ returnMap' = T.returnMap
    /\ varargMap' = T.varargMap
    /\ constraints' = T.constraints
    /\ aborted' = T.aborted
    /\ origin' = T.origin
    /\ initLog' = T.initLog
    /\ bindLog' = T.bindLog
    /\ pc' = IF T.aborted = "none" THEN Successor(pc) ELSE pc
    /\ UNCHANGED M

Init ==
    /\ M \in Modules
    /\ pc = At("start", 0, 0)
    /\ nodes = InitialNodes
    /\ valueNodeMap = <<>>
    /\ objNodeMap = <<>>
    /\ returnMap = <<>>
    /\ varargMap = <<>>
    /\ constraints = <<>>
    /\ aborted = "none"
    /\ origin = <<>>
    /\ initLog = <<>>
    /\ bindLog = <<>>

\* collectConstraints up to the call of collectConstraintsForGlobals
Seed ==
    /\ pc.ph = "start" /\ aborted = "none"
    /\ Becomes(
         Emit(Emit(Emit(State,
            "ADDR_OF", UniversalPtrNode, UniversalObjNode, 0),
            "STORE", UniversalObjNode, UniversalObjNode, 0),
            "ADDR_OF", NullPtrNode, NullObjectNode, 0))

\* collectConstraintsForGlobals, first loop, one iteration
GlobalNodesStep ==
    /\ pc.ph = "globals" /\ aborted = "none"
    /\ Becomes(GlobalNodes(State, M, pc.i))

\* collectConstraintsForGlobals, second loop, one iteration
FunctionNodesStep ==
    /\ pc.ph = "functions" /\ aborted = "none"
    /\ Becomes(FunctionNodes(State, M, pc.i))

\* collectConstraintsForGlobals, third loop, one iteration
GlobalInitializerStep ==
    /\ pc.ph = "initializers" /\ aborted = "none"
    /\ Becomes(GlobalInitializer(State, M, pc.i))

\* if (f.isDeclaration() || f.isIntrinsic()) continue;
SkipDeclaration ==
    /\ pc.ph = "function" /\ aborted = "none"
    /\ M.funcs[pc.f].decl
    /\ Becomes(State)

\* the nodes of a function with a body
FunctionEntryStep ==
    /\ pc.ph = "function" /\ aborted = "none"
    /\ ~M.funcs[pc.f].decl
    /\ Becomes(FunctionEntry(State, M, pc.f))

\* collectConstraintsForInstruction(inst), the second loop over the body
TranslateInstruction ==
    /\ pc.ph = "body" /\ aborted = "none"
    /\ \E ub \in UBOutcomes :
          Becomes(collectConstraintsForInstruction(State, M, pc.f, pc.i, ub))

Next ==
    \/ Seed
    \/ GlobalNodesStep
    \/ FunctionNodesStep
    \/ GlobalInitializerStep
    \/ SkipDeclaration
    \/ FunctionEntryStep
    \/ TranslateInstruction

Spec == Init /\ [][Next]_vars
\* ------------------------------------------------------- properties
\* instruction i of function f has been translated
Translated(f, i) ==
    \/ pc.ph = "done"
    \/ pc.ph \in {"function", "body"} /\ pc.f > f
    \/ pc.ph = "body" /\ pc.f = f /\ pc.i > i

\* the constraints the step at position p appended, in order
EmittedBy(p) ==
    LET idx == {k \in 1..Len(constraints) : origin[k] = p}
    IN IF idx = {} THEN <<>>
       ELSE SubSeq(constraints, CHOOSE k \in idx : \A l \in idx : k <= l, MaxOf(idx))

NodeOf(v) == getValueNodeFor(State, v)

\* the instructions of the module: <<function, position in its body>>
Sites == UNION {{<<f, i>> : i \in 1..Len(M.funcs[f].body)} : f \in 1..Len(M.funcs)}
InstAt(s) == M.funcs[s[1]].body[s[2]]

\* C1: translating a store of a pointer-typed value appends exactly
\* STORE(node of the address operand, node of the stored value); a store
\* of a non-pointer value appends nothing.
C1_StoreOfPointerEmitsStore ==
    \A s \in Sites :
        InstAt(s).op = "store" /\ Translated(s[1], s[2]) =>
            EmittedBy(At("body", s[1], s[2])) =
                IF valueIsPointer(M, InstAt(s).ops[1])
                THEN <<Constraint("STORE", NodeOf(InstAt(s).ops[2]),
                                  NodeOf(InstAt(s).ops[1]), 0)>>
                ELSE <<>>

\* C2: when addGlobalInitializerConstraints processes a struct literal
\* for object node B, operand i is initialized at B + the flattened index
\* of field i of the struct.
C2_StructOperandAtFlattenedIndex ==
    \A a \in 1..Len(initLog) : \A b \in 1..Len(initLog) :
        /\ initLog[a].c.k = "struct"
        /\ Len(initLog[b].path) = Len(initLog[a].path) + 1
        /\ SubSeq(initLog[b].path, 1, Len(initLog[a].path)) = initLog[a].path
        => initLog[b].obj = initLog[a].obj
              + getOffset(initLog[a].c.ty, initLog[b].path[Len(initLog[b].path)])

\* a direct call of a declaration that neither isMallocCall nor the
\* library table handles
IsUnresolvedCall(s) ==
    /\ InstAt(s).op = "call" /\ InstAt(s).callee # 0
    /\ M.funcs[InstAt(s).callee].decl
    /\ M.funcs[InstAt(s).callee].lib = "none"

KeepIt(r) == r.keep
Kept(q) == LET t == SelectSeq(q, KeepIt) IN [i \in 1..Len(t) |-> t[i].c]

\* C3: an unresolved external call completes without a fatal abort and
\* appends exactly COPY(call result, Universal Pointer) if the call is
\* pointer-typed and COPY(actual, Universal Pointer) for each
\* pointer-typed actual.
C3_UnresolvedCallFallback ==
    \A s \in Sites :
        IsUnresolvedCall(s) =>
            /\ pc = At("body", s[1], s[2]) => aborted = "none"
            /\ Translated(s[1], s[2]) =>
                 EmittedBy(At("body", s[1], s[2])) =
                    (IF InstAt(s).ptr
                     THEN <<Constraint("COPY", NodeOf(IV(s[1], s[2])), UniversalPtrNode, 0)>>
                     ELSE <<>>)
                    \o Kept([j \in 1..Len(InstAt(s).ops) |->
                          [keep |-> valueIsPointer(M, InstAt(s).ops[j]),
                           c |-> Constraint("COPY", NodeOf(InstAt(s).ops[j]),
                                            UniversalPtrNode, 0)]])

\* every direct call of the module calls a function with a body
CallsOnlyBodies ==
    \A s \in Sites :
        InstAt(s).op = "call" /\ InstAt(s).callee # 0 => ~M.funcs[InstAt(s).callee].decl

\* C4: every node a constraint names was allocated before the constraint
\* was appended and no required node lookup fails, in whatever order the
\* functions are defined (calls of declarations are C3's).
C4_NodesAllocatedBeforeUse ==
    CallsOnlyBodies =>
        /\ aborted # "lookup"
        /\ \A k \in 1..Len(constraints) :
              constraints[k].dest < Len(nodes) /\ constraints[k].src < Len(nodes)

\* C5: the constraints of the global initializers are appended only after
\* the constraints of every function body, the ADDR_OF constraints of the
\* globals before any function body.
C5_InitializersAfterBodies ==
    \A k \in 1..Len(origin) : \A l \in 1..Len(origin) :
        /\ origin[k].ph = "initializers" /\ origin[l].ph = "body" => l < k
        /\ origin[k].ph = "globals" /\ origin[l].ph = "body" => k < l

\* C5 as the code has it: the constraints of the global initializers are
\* appended after the ADDR_OF constraints of every global and of every
\* address-taken function, and before the constraints of any function
\* body.
C5_InitializersBeforeBodies ==
    \A k \in 1..Len(origin) : \A l \in 1..Len(origin) :
        /\ origin[k].ph \in {"globals", "functions"}
              /\ origin[l].ph = "initializers" => k < l
        /\ origin[k].ph \in {"globals", "functions", "initializers"}
              /\ origin[l].ph = "body" => k < l

\* a run in which initializer constraints and body constraints were both
\* appended
C5_Witness ==
    /\ \E k \in 1..Len(origin) : origin[k].ph = "initializers"
    /\ \E k \in 1..Len(origin) : origin[k].ph = "body"
    /\ \E k \in 1..Len(origin) : origin[k].ph = "functions"

\* ---- indirect calls
IsIndirectCall(s) == InstAt(s).op = "call" /\ InstAt(s).callee = 0

\* the functions addArgumentConstraintForCall was called with for site s
BoundAt(s) == {bindLog[k].callee : k \in {j \in 1..Len(bindLog) : bindLog[j].site = s}}

\* f is address-taken and variadic or of exactly as many formals as the
\* site has actuals
ShouldBind(s, h) ==
    /\ hasAddressTaken(M, h)
    /\ (M.funcs[h].varArg \/ Len(M.funcs[h].formals) = Len(InstAt(s).ops))

\* C6: at an indirect call site with k actuals, argument binding is
\* invoked for f if and only if f is address-taken and either variadic or
\* of exactly k formals, whatever the types of the formals; once per f, in
\* module order (a binding that aborts the pass ends the enumeration).
C6_IndirectCandidates ==
    \A s \in Sites :
        IsIndirectCall(s) =>
            /\ \A h \in BoundAt(s) : ShouldBind(s, h)
            /\ \A h \in 1..Len(M.funcs) :
                  /\ ShouldBind(s, h)
                  /\ (Translated(s[1], s[2]) \/ \E h2 \in BoundAt(s) : h < h2)
                  => h \in BoundAt(s)
            /\ \A h \in BoundAt(s) :
                  Cardinality({j \in 1..Len(bindLog) :
                      bindLog[j].site = s /\ bindLog[j].callee = h}) = 1

\* a translated indirect call that bound a variadic function of another
\* arity and left an address-taken function of another arity unbound
C6_Witness ==
    \E s \in Sites :
        /\ IsIndirectCall(s) /\ Translated(s[1], s[2])
        /\ \E h \in BoundAt(s) :
              M.funcs[h].varArg /\ Len(M.funcs[h].formals) # Len(InstAt(s).ops)
                /\ \E j \in 1..Len(M.funcs[h].formals) : M.funcs[h].formals[j]
        /\ \E h \in 1..Len(M.funcs) : hasAddressTaken(M, h) /\ h \notin BoundAt(s)

\* ---- GEP field numbers
RECURSIVE FieldStarts(_)
\* the scalar fields of a type: <<byte offset of its start, flattened
\* field index>>, the index being the sum of the StructInfo offsets of
\* the structs entered on the way
FieldStarts(t) ==
    CASE t.k = "array" ->
            {<<j * getTypeAllocSize(t.sub[1]) + p[1], p[2]>> :
                j \in 0..(t.n - 1), p \in FieldStarts(t.sub[1])}
      [] t.k = "struct" ->
            UNION {{<<getElementOffset(t, i) + p[1], getOffset(t, i) + p[2]>> :
                        p \in FieldStarts(t.sub[i])} : i \in 1..t.n}
      [] OTHER -> {<<0, 0>>}

\* byte offset off from a pointer to t is the start of a field of the
\* struct type under t
LandsOnField(t, off) ==
    /\ isStructTy(CollapseArray(t))
    /\ \E p \in FieldStarts(CollapseArray(t)) :
          p[1] = off % getTypeAllocSize(CollapseArray(t))

FlatIndexAt(t, off) ==
    LET p == CHOOSE q \in FieldStarts(CollapseArray(t)) :
                q[1] = off % getTypeAllocSize(CollapseArray(t))
    IN p[2]

\* C7: a GEP whose byte offset is the start of a field of the struct type
\* under its base pointer appends one offset-tagged constraint that
\* carries the flattened index of that field: 1 for field 1 of a struct
\* of two scalars, 0 for byte offset 0.
C7_GEPFieldIndex ==
    \A s \in Sites :
        InstAt(s).op = "gep" /\ Translated(s[1], s[2])
            /\ LandsOnField(InstAt(s).ty, InstAt(s).off) =>
            /\ EmittedBy(At("body", s[1], s[2])) =
                  <<Constraint("STORE", NodeOf(IV(s[1], s[2])),
                               NodeOf(InstAt(s).ops[1]),
                               FlatIndexAt(InstAt(s).ty, InstAt(s).off))>>
            /\ InstAt(s).ty = S2 /\ InstAt(s).off = 8 =>
                  EmittedBy(At("body", s[1], s[2]))[1].offset = 1
            /\ InstAt(s).off = 0 =>
                  EmittedBy(At("body", s[1], s[2]))[1].offset = 0

\* a translated GEP to a field behind a nested struct, whose flattened
\* index is neither its position in the struct nor its byte offset
C7_Witness ==
    \E s \in Sites :
        /\ InstAt(s).op = "gep" /\ Translated(s[1], s[2])
        /\ InstAt(s).ty = SN /\ InstAt(s).off = 24
        /\ EmittedBy(At("body", s[1], s[2]))[1].offset = 3

\* ---- zero initializers
IsZeroAggregate(c) == c.k = "zero" /\ c.ty.k \in {"struct", "array"}

Extends(q, r) == Len(q) > Len(r) /\ SubSeq(q, 1, Len(r)) = r

\* C8: a call of addGlobalInitializerConstraints with an all-zero
\* aggregate appends exactly one constraint, COPY(target object node, Null
\* Object), and makes no recursive call.
C8_ZeroAggregateOneCopy ==
    \A a \in 1..Len(initLog) :
        IsZeroAggregate(initLog[a].c) =>
            /\ initLog[a].to = initLog[a].from + 1
            /\ constraints[initLog[a].to] =
                  Constraint("COPY", initLog[a].obj, NullObjectNode, 0)
            /\ \A b \in 1..Len(initLog) : ~Extends(initLog[b].path, initLog[a].path)

\* a zero aggregate reached two levels down the recursion, and one that
\* is a whole initializer
C8_Witness ==
    /\ \E a \in 1..Len(initLog) :
          IsZeroAggregate(initLog[a].c) /\ Len(initLog[a].path) = 3
    /\ pc.ph = "function"

\* ---- nodes of the globals
GlobalNodesDone(g) == pc.ph # "start" /\ (pc.ph = "globals" => pc.i > g)

\* the object nodes global g should own
ObjectCount(g) ==
    LET t == CollapseArray(M.globals[g].ty)
    IN IF isStructTy(t) THEN getExpandedSize(t) ELSE 1

RECURSIVE FirstNodeOf(_)
\* the index the value node of global g should have
FirstNodeOf(g) ==
    IF g = 1 THEN Len(InitialNodes)
    ELSE FirstNodeOf(g - 1) + 1 + ObjectCount(g - 1)

\* C9: global processing allocates for each global one value node and,
\* for a base type that is a non-empty struct of expandedSize N, N object
\* nodes at consecutive indices and appends ADDR_OF(value node, first
\* object node); for an empty struct no object node and ADDR_OF(value
\* node, Null Object); for any other type one object node.
C9_GlobalNodes ==
    \A g \in 1..Len(M.globals) :
        GlobalNodesDone(g) =>
            LET v == FirstNodeOf(g)
                N == ObjectCount(g)
            IN /\ Lookup(valueNodeMap, GV(g)) = v
               /\ {k \in 1..Len(nodes) : nodes[k] = ValueNode(GV(g))} = {v + 1}
               /\ {k \in 1..Len(nodes) : nodes[k] = ObjNode(GV(g))} =
                     (IF N = 0 THEN {} ELSE {v + 2})
               /\ Lookup(objNodeMap, GV(g)) = (IF N = 0 THEN InvalidIndex ELSE v + 1)
               /\ Len(nodes) >= v + 1 + N
               /\ \A j \in 2..N : nodes[v + 1 + j] = ObjNode(NoValue)
               /\ Len(nodes) > v + 1 + N => nodes[v + 2 + N] # ObjNode(NoValue)
               /\ EmittedBy(At("globals", 0, g)) =
                     <<Constraint("ADDR_OF", v,
                                  IF N = 0 THEN NullObjectNode ELSE v + 1, 0)>>

\* a struct global of four flattened fields, with its nodes and those of
\* the global behind it allocated
C9_Witness ==
    /\ pc.ph = "functions"
    /\ ObjectCount(1) = 4
    /\ Len(nodes) = Len(InitialNodes) + 5 + 2

\* ---- argument binding
IsPrefix(q, r) == Len(q) <= Len(r) /\ SubSeq(r, 1, Len(q)) = q

\* what addArgumentConstraintForCall should append for site s and callee h
ExpectedBinding(s, h) ==
    LET as == InstAt(s).ops
        fs == M.funcs[h].formals
        lo == Min(Len(as), Len(fs))
    IN Kept([i \in 1..lo |->
            [keep |-> fs[i],
             c |-> Constraint("COPY", NodeOf(AV(h, i)),
                              IF valueIsPointer(M, as[i]) THEN NodeOf(as[i])
                              ELSE UniversalPtrNode, 0)]])
       \o (IF M.funcs[h].varArg
           THEN Kept([i \in 1..(Len(as) - lo) |->
                    [keep |-> valueIsPointer(M, as[lo + i]),
                     c |-> Constraint("COPY", getVarargNodeFor(State, h),
                                      NodeOf(as[lo + i]), 0)]])
           ELSE <<>>)

AppendedBy(e) == SubSeq(constraints, e.from + 1, e.to)

\* C10: addArgumentConstraintForCall appends, for each pointer-typed
\* formal p_i with an actual a_i, COPY(p_i, a_i) if a_i is pointer-typed
\* and COPY(p_i, Universal Pointer) otherwise, then for a variadic callee
\* COPY(vararg node, a_i) for each pointer-typed surplus actual, and
\* nothing else; a call that an assertion ended appended a prefix of these.
C10_ArgumentBinding ==
    \A k \in 1..Len(bindLog) :
        /\ IsPrefix(AppendedBy(bindLog[k]),
                    ExpectedBinding(bindLog[k].site, bindLog[k].callee))
        /\ bindLog[k].returned =>
              AppendedBy(bindLog[k]) =
                  ExpectedBinding(bindLog[k].site, bindLog[k].callee)

\* a returned binding of <<i32, i8*>> against a variadic callee of one
\* pointer formal: COPY(formal, Universal Pointer), COPY(vararg, actual)
C10_Witness ==
    \E k \in 1..Len(bindLog) :
        /\ bindLog[k].returned
        /\ M.funcs[bindLog[k].callee].varArg
        /\ M.funcs[bindLog[k].callee].formals = <<TRUE>>
        /\ InstAt(bindLog[k].site).ops = <<CINT, GV(1)>>
        /\ Len(AppendedBy(bindLog[k])) = 2

\* ---- aggregate memory locations
\* the struct-typed locations the pass has given an object node so far:
\* <<value, base type>> of each processed global and translated alloca
StructLocations ==
    {<<GV(g), CollapseArray(M.globals[g].ty)>> :
        g \in {h \in 1..Len(M.globals) : GlobalNodesDone(h)}}
    \cup {<<IV(s[1], s[2]), CollapseArray(InstAt(s).ty)>> :
            s \in {t \in Sites : InstAt(t).op = "alloca" /\ Translated(t[1], t[2])}}

\* the field offsets the GEP offset resolver produces for base type t
ResolvedFields(t) == {getGEPInstFieldNum(o, t) : o \in 0..MaxOffset}

\* C11: every struct-typed location with an object node, global or
\* alloca, of a non-empty struct type of expandedSize N owns N consecutive
\* object nodes with field 0 at the base: base + f, for every field offset
\* f < N the GEP offset resolver produces, is an object node of that
\* location (the base carries the location's value, the others none).
C11_AggregateNodesConsecutive ==
    \A l \in StructLocations :
        isStructTy(l[2]) /\ ~isEmpty(l[2]) =>
            LET base == getObjectNodeFor(State, l[1])
                N == getExpandedSize(l[2])
            IN /\ base # InvalidIndex
               /\ \A f \in ResolvedFields(l[2]) \cap (0..(N - 1)) :
                     /\ getOffsetObjectNode(State, base, f) < Len(nodes)
                     /\ nodes[getOffsetObjectNode(State, base, f) + 1] =
                           (IF f = 0 THEN ObjNode(l[1]) ELSE ObjNode(NoValue))

\* ---- GEP into the middle of a field
RECURSIVE HasZeroSizePart(_)
\* t is, or contains, a type of allocation size 0
HasZeroSizePart(t) ==
    \/ getTypeAllocSize(t) = 0
    \/ \E i \in 1..Len(t.sub) : HasZeroSizePart(t.sub[i])

\* the flattened index of the field whose start is the last one at or
\* before byte off of base type t (0 for a base type that is no struct)
PartialIndexAt(t, off) ==
    LET b == CollapseArray(t)
        o == off % getTypeAllocSize(b)
        before == {p \in FieldStarts(b) : p[1] <= o}
    IN (CHOOSE p \in before : \A q \in before : q[1] <= p[1])[2]

\* C12: the GEP offset resolver terminates without aborting for every
\* byte offset and every base element type; when the offset points into
\* the interior of a field it returns the field index found so far, and
\* the GEP translation appends its single offset-tagged constraint with
\* that index and generation goes on with the next instruction.
C12_GEPResolverNeverAborts ==
    \A s \in Sites :
        InstAt(s).op = "gep" =>
            /\ pc = At("body", s[1], s[2]) => aborted = "none"
            /\ Translated(s[1], s[2]) /\ ~HasZeroSizePart(InstAt(s).ty) =>
                  EmittedBy(At("body", s[1], s[2])) =
                     <<Constraint("STORE", NodeOf(IV(s[1], s[2])),
                                  NodeOf(InstAt(s).ops[1]),
                                  PartialIndexAt(InstAt(s).ty, InstAt(s).off))>>
====
